---- MODULE Spec2Model ----
(***************************************************************************)
(* Model of the two statistics snippets of the repository:                 *)
(*   packages/dev/test-swarm/file3.py        process_data(items)           *)
(*   packages/dev/tests/fixtures/sample-code.py   class DataProcessor      *)
(* Python values are modelled by what the interpreter does with them: a    *)
(* number carries its type (int or float) and its exact value as a reduced *)
(* fraction, `+` promotes to float when either operand is a float, `/` is  *)
(* true division (always a float), and adding a non-number raises          *)
(* TypeError.  A float is held as the exact quotient (no rounding).        *)
(***************************************************************************)
EXTENDS Integers, Sequences, FiniteSets

\* ------------------------------------------------------------ bounds
\* Longest list handed to process_data.
MaxItems == 3
\* Most records added to one DataProcessor.
MaxData == 2

\* ------------------------------------------------------------ Python values
Abs(n) == IF n < 0 THEN -n ELSE n

RECURSIVE Gcd(_, _)
Gcd(a, b) == IF b = 0 THEN a ELSE Gcd(b, a % b)

\* A Python int.
PyInt(n) == [kind |-> "int", num |-> n, den |-> 1]

\* A Python float of value n/d (d > 0), held in lowest terms.
PyFloat(n, d) ==
    LET g == Gcd(Abs(n), d)
    IN  IF n = 0 THEN [kind |-> "float", num |-> 0, den |-> 1]
        ELSE [kind |-> "float", num |-> n \div g, den |-> d \div g]

\* A Python str (its text is never inspected).
PyStr == [kind |-> "str", num |-> 0, den |-> 1]

\* What an expression yields when it raises instead of producing a value.
Raised(exc) == [kind |-> exc, num |-> 0, den |-> 1]

IsNumber(v) == v.kind \in {"int", "float"}
IsRaised(v) == v.kind \in {"TypeError", "ZeroDivisionError"}

\* a + b: int + int is an int, a float operand makes a float, anything
\* else is "TypeError: unsupported operand type(s) for +".
PyAdd(a, b) ==
    IF IsRaised(a) THEN a
    ELSE IF ~(IsNumber(a) /\ IsNumber(b)) THEN Raised("TypeError")
    ELSE IF a.kind = "int" /\ b.kind = "int" THEN PyInt(a.num + b.num)
    ELSE PyFloat(a.num * b.den + b.num * a.den, a.den * b.den)

\* The mutant of PyTrueDiv: floor division (total // count).
PyFloorDiv(a, n) ==
    IF IsRaised(a) THEN a
    ELSE IF ~IsNumber(a) THEN Raised("TypeError")
    ELSE IF n = 0 THEN Raised("ZeroDivisionError")
    ELSE IF a.kind = "int" THEN PyInt(a.num \div (a.den * n))
    ELSE PyFloat(a.num \div (a.den * n), 1)

\* a / n for an int n: true division, a float whatever the operands;
\* n = 0 is "ZeroDivisionError: division by zero".
PyTrueDiv(a, n) ==
    IF IsRaised(a) THEN a
    ELSE IF ~IsNumber(a) THEN Raised("TypeError")
    ELSE IF n = 0 THEN Raised("ZeroDivisionError")
    ELSE PyFloat(a.num, a.den * n)

\* sum(values): starts from the int 0 and adds left to right.
RECURSIVE PySumFrom(_, _)
PySumFrom(acc, values) ==
    IF values = <<>> THEN acc
    ELSE PySumFrom(PyAdd(acc, Head(values)), Tail(values))

PySum(values) == PySumFrom(PyInt(0), values)

\* ------------------------------------------------------------ records
\* A record (a dict) is the set of its <<key, value>> pairs.
HasKey(item, key) == \E p \in item : p[1] = key

\* item.get(key, default)
DictGet(item, key, default) ==
    IF HasKey(item, key) THEN (CHOOSE p \in item : p[1] = key)[2] ELSE default

\* The mutant of ItemValue: the default is 1 instead of 0.
ItemValueDefaultOne(item) == DictGet(item, "value", PyInt(1))

\* item.get('value', 0)
ItemValue(item) == DictGet(item, "value", PyInt(0))

\* [item.get("value", 0) for item in items]
ValuesOf(items) == [k \in 1..Len(items) |-> ItemValue(items[k])]

\* ------------------------------------------------------------ outcomes
\* What a call hands back: the returned dict, or the exception it raised.
Returned(count, total, average) ==
    [exc |-> "none", count |-> count, total |-> total, average |-> average]

Raises(exc) ==
    [exc |-> exc, count |-> 0, total |-> PyInt(0), average |-> PyInt(0)]

Outcome(count, total, average) ==
    IF IsRaised(total) THEN Raises(total.kind)
    ELSE IF IsRaised(average) THEN Raises(average.kind)
    ELSE Returned(count, total, average)

\* ------------------------------------------------------------ file3.py
\* The mutant of process_data: count counts only the records with a value.
process_data_countValued(items) ==
    LET total == PySum(ValuesOf(items))
        count == Cardinality({k \in 1..Len(items) : HasKey(items[k], "value")})
        average == IF count > 0 THEN PyTrueDiv(total, count) ELSE PyInt(0)
    IN  Outcome(count, total, average)

\* The mutant of process_data: the division is not guarded.
process_data_unguarded(items) ==
    LET total == PySum(ValuesOf(items))
        count == Len(items)
        average == PyTrueDiv(total, count)
    IN  Outcome(count, total, average)

process_data(items) ==
    LET total == PySum(ValuesOf(items))
        count == Len(items)
        average == IF count > 0 THEN PyTrueDiv(total, count) ELSE PyInt(0)
    IN  Outcome(count, total, average)

\* ------------------------------------------------------------ sample-code.py
\* The mutant of get_summary: records without a value are skipped.
get_summary_skipMissing(data) ==
    IF data = <<>> THEN Returned(0, PyInt(0), PyInt(0))
    ELSE LET values == ValuesOf(SelectSeq(data, LAMBDA r : HasKey(r, "value")))
             total == PySum(values)
             count == Len(values)
             average == IF count > 0 THEN PyTrueDiv(total, count) ELSE PyInt(0)
         IN  Outcome(count, total, average)

\* DataProcessor.get_summary, as a function of self.data.
get_summary(data) ==
    IF data = <<>> THEN Returned(0, PyInt(0), PyInt(0))
    ELSE LET values == ValuesOf(data)
             total == PySum(values)
             count == Len(values)
             average == IF count > 0 THEN PyTrueDiv(total, count) ELSE PyInt(0)
         IN  Outcome(count, total, average)

\* The mutant of add_item: data is a class attribute, shared by all instances.
add_item_shared(d, self, item) == [j \in DOMAIN d |-> Append(d[j], item)]

\* The mutant of add_item: the record is inserted at the front.
add_item_front(d, self, item) == [d EXCEPT ![self] = <<item>> \o @]

\* The mutant of add_item: the record replaces the dataset.
add_item_replace(d, self, item) == [d EXCEPT ![self] = <<item>>]

\* DataProcessor.add_item: self.data.append(item), on the instances' data.
add_item(d, self, item) == [d EXCEPT ![self] = Append(@, item)]

\* ------------------------------------------------------------ inputs
RNone == {<<"name", PyStr>>}
REmpty == {}
R3 == {<<"value", PyInt(3)>>}
R4 == {<<"value", PyInt(4)>>}
RNeg == {<<"value", PyInt(-7)>>}
RHalf == {<<"value", PyFloat(5, 2)>>}
RStr == {<<"name", PyStr>>, <<"value", PyStr>>}

\* The records a caller puts in the list it hands to process_data.
ItemPool == {REmpty, RNeg, RHalf, RStr}
\* The records a caller adds to a DataProcessor.
AddPool == {RNone, R3, R4, RStr}
\* The records added when two DataProcessors are in use.
PairPool == {RNone, R3, R4}

SeqsUpTo(S, n) == UNION {[1..k -> S] : k \in 0..n}

Inst == {"A", "B"}

\* ------------------------------------------------------------ state
VARIABLES
    items,    \* the caller's list, the argument of process_data
    pdRet,    \* <<>> or <<the outcome of the last process_data(items)>>
    pdPrev,   \* <<>> or <<the outcome of the call before the last one>>
    data,     \* data[i]: self.data of DataProcessor i
    added,    \* added[i]: the records passed to i.add_item so far, in order
    held,     \* held[i]: <<>> or <<[at, out]>>: the outcome of the last
              \*   i.get_summary() and the number of adds that preceded it
    prev      \* prev[i]: <<>> or <<the outcome of the get_summary() before
              \*   the last one>>, when no add came between the two

vars == <<items, pdRet, pdPrev, data, added, held, prev>>

\* DataProcessor.__init__ of every instance: self.data = []
InitProcessors ==
    /\ data = [i \in Inst |-> <<>>]
    /\ added = [i \in Inst |-> <<>>]
    /\ held = [i \in Inst |-> <<>>]
    /\ prev = [i \in Inst |-> <<>>]

Init ==
    /\ items \in SeqsUpTo(ItemPool, MaxItems)
    /\ pdRet = <<>>
    /\ pdPrev = <<>>
    /\ InitProcessors

InitTwo ==
    /\ items = <<>>
    /\ pdRet = <<>>
    /\ pdPrev = <<>>
    /\ InitProcessors

\* The mutant of ProcessData: the call consumes its argument.
ProcessDataConsuming ==
    /\ pdRet' = <<process_data(items)>>
    /\ pdPrev' = pdRet
    /\ items' = <<>>
    /\ UNCHANGED <<data, added, held, prev>>

\* A call process_data(items): items is only read.
ProcessData ==
    /\ pdRet' = <<process_data(items)>>
    /\ pdPrev' = pdRet
    /\ UNCHANGED <<items, data, added, held, prev>>

\* A call i.add_item(item).
AddItem(i, item) ==
    /\ Len(added[i]) < MaxData
    /\ data' = add_item(data, i, item)
    /\ added' = [added EXCEPT ![i] = Append(@, item)]
    /\ prev' = [prev EXCEPT ![i] = <<>>]
    /\ UNCHANGED <<items, pdRet, pdPrev, held>>

\* The mutant of GetSummary: the dataset is cleared once summarised.
GetSummaryClearing(i) ==
    /\ held' = [held EXCEPT ![i] =
                  <<[at |-> Len(added[i]), out |-> get_summary(data[i])]>>]
    /\ prev' = [prev EXCEPT ![i] =
                  IF held[i] # <<>> /\ held[i][1].at = Len(added[i])
                  THEN <<held[i][1].out>> ELSE <<>>]
    /\ data' = [data EXCEPT ![i] = <<>>]
    /\ UNCHANGED <<items, pdRet, pdPrev, added>>

\* A call i.get_summary(): self.data is only read.
GetSummary(i) ==
    /\ held' = [held EXCEPT ![i] =
                  <<[at |-> Len(added[i]), out |-> get_summary(data[i])]>>]
    /\ prev' = [prev EXCEPT ![i] =
                  IF held[i] # <<>> /\ held[i][1].at = Len(added[i])
                  THEN <<held[i][1].out>> ELSE <<>>]
    /\ UNCHANGED <<items, pdRet, pdPrev, data, added>>

\* A caller with one list and one DataProcessor.
Next ==
    \/ ProcessData
    \/ \E item \in AddPool : AddItem("A", item)
    \/ GetSummary("A")

Spec == Init /\ [][Next]_vars

\* A caller with two DataProcessors.
NextTwo ==
    \/ \E i \in Inst, item \in PairPool : AddItem(i, item)
    \/ \E i \in Inst : GetSummary(i)

SpecTwo == InitTwo /\ [][NextTwo]_vars

\* ------------------------------------------------------------ reference
\* The arithmetic the properties are stated in: exact fractions, computed
\* apart from the Python operators above.
Rat(n, d) == [num |-> n, den |-> d]

\* extract(r): the record's value when the key is present, 0 when absent.
Extract(r) ==
    IF \E p \in r : p[1] = "value"
    THEN LET v == (CHOOSE p \in r : p[1] = "value")[2] IN Rat(v.num, v.den)
    ELSE Rat(0, 1)

\* The sum over R of extract(r), over the common denominator.
RECURSIVE RatSum(_)
RatSum(R) ==
    IF R = <<>> THEN Rat(0, 1)
    ELSE LET x == Extract(R[Len(R)])
             s == RatSum(SubSeq(R, 1, Len(R) - 1))
         IN  Rat(s.num * x.den + x.num * s.den, s.den * x.den)

\* A Python number and a fraction denote the same value.
SameValue(v, q) == IsNumber(v) /\ v.num * q.den = q.num * v.den

\* Every value present in R is a number.
AllNumeric(R) ==
    \A k \in 1..Len(R) :
        \A p \in R[k] : p[1] = "value" => IsNumber(p[2])

SomeMissing(R) == \E k \in 1..Len(R) : \A p \in R[k] : p[1] # "value"
SomeValued(R) == \E k \in 1..Len(R) : \E p \in R[k] : p[1] = "value"

\* The records i had been given when its last get_summary() was called.
SeenBy(i) == SubSeq(added[i], 1, held[i][1].at)

\* ------------------------------------------------------------ claims

TotalIsSum(R, out) ==
    AllNumeric(R) => out.exc = "none" /\ SameValue(out.total, RatSum(R))

\* C1: for every sequence R of records whose values are numbers, the total
\* returned by process_data(R), and by get_summary() over the records added
\* so far, is the sum over R of the record's value, a record without the
\* key counting 0 and raising nothing.
C1_TotalIsSumOfValues ==
    /\ pdRet # <<>> => TotalIsSum(items, pdRet[1])
    /\ \A i \in Inst : held[i] # <<>> => TotalIsSum(SeenBy(i), held[i][1].out)

C1_Witness ==
    /\ pdRet # <<>> /\ AllNumeric(items)
    /\ SomeMissing(items) /\ SomeValued(items)
    /\ held["A"] # <<>> /\ AllNumeric(SeenBy("A"))
    /\ SomeMissing(SeenBy("A")) /\ SomeValued(SeenBy("A"))

CountIsLen(R, out) == out.exc = "none" => out.count = Len(R)

\* C2: the count returned for a sequence R is len(R): records without a
\* value key are counted too.
C2_CountIsLength ==
    /\ pdRet # <<>> => CountIsLen(items, pdRet[1])
    /\ \A i \in Inst : held[i] # <<>> => CountIsLen(SeenBy(i), held[i][1].out)

C2_Witness ==
    /\ pdRet # <<>> /\ pdRet[1].exc = "none"
    /\ SomeMissing(items) /\ pdRet[1].count = MaxItems
    /\ held["A"] # <<>> /\ held["A"][1].out.exc = "none"
    /\ SomeMissing(SeenBy("A")) /\ held["A"][1].out.count = MaxData

AverageIsQuotient(R, out) ==
    /\ out.exc # "ZeroDivisionError"
    /\ R = <<>> => out.exc = "none"
    /\ out.exc = "none" =>
        /\ out.count > 0 =>
             /\ IsNumber(out.average)
             /\ out.average.num * out.count * out.total.den
                  = out.total.num * out.average.den
        /\ out.count = 0 =>
             /\ SameValue(out.total, Rat(0, 1))
             /\ SameValue(out.average, Rat(0, 1))

\* C3: the average returned is total / count when count > 0 and 0 when
\* count is 0; the empty sequence, and a DataProcessor nothing was added
\* to, give count 0, total 0, average 0, with no division by zero and no
\* exception.
C3_AverageGuarded ==
    /\ pdRet # <<>> => AverageIsQuotient(items, pdRet[1])
    /\ \A i \in Inst :
         held[i] # <<>> => AverageIsQuotient(SeenBy(i), held[i][1].out)

C3_Witness ==
    /\ items = <<>> /\ pdRet # <<>> /\ pdRet[1].count = 0
    /\ added["A"] = <<>> /\ held["A"] # <<>> /\ held["A"][1].out.count = 0

\* C4: whatever the interleaving of add_item and get_summary on an
\* instance, the summary it returned last is the summary of exactly the
\* records added before that call, and stays so while more are added.
C4_SummaryOfRecordsSoFar ==
    \A i \in Inst :
        held[i] # <<>> => held[i][1].out = get_summary(SeenBy(i))

C4_Witness ==
    /\ held["A"] # <<>>
    /\ held["A"][1].at = 1
    /\ Len(added["A"]) = MaxData
    /\ held["A"][1].out # get_summary(added["A"])

AppendOnlyStep ==
    \A i \in Inst :
        /\ Len(data'[i]) >= Len(data[i])
        /\ SubSeq(data'[i], 1, Len(data[i])) = data[i]
        /\ added'[i] # added[i] =>
             data'[i] = Append(data[i], added'[i][Len(added'[i])])
        /\ added'[i] = added[i] => Len(data'[i]) = Len(data[i])

\* C5: the held sequence starts empty; an add_item(record) of any record
\* makes it the previous sequence with that record appended at the end,
\* and no step removes, reorders or replaces a held record.
C5_AppendOnly ==
    /\ \A i \in Inst : data[i] = <<>>
    /\ [][AppendOnlyStep]_vars

C5_Witness ==
    /\ Len(data["A"]) = MaxData
    /\ data["A"][1] = R3
    /\ data["A"][MaxData] = RStr

\* C6: a call of process_data leaves the list it is given as it was, and
\* a call of get_summary leaves self.data as it was: any step that is not
\* an add_item changes neither.
C6_CallsDoNotMutate ==
    [][(added' = added) => (items' = items /\ data' = data)]_vars

C6_Witness ==
    /\ items # <<>> /\ pdRet # <<>>
    /\ data["A"] # <<>> /\ held["A"] # <<>>
    /\ held["A"][1].at = Len(added["A"])

\* C7: a second process_data call on the same list returns what the first
\* returned, and a get_summary() that follows another with no add_item
\* between them returns the same count, total and average.
C7_Idempotent ==
    /\ pdPrev # <<>> => pdPrev[1] = pdRet[1]
    /\ \A i \in Inst : prev[i] # <<>> => prev[i][1] = held[i][1].out

C7_Witness ==
    /\ items # <<>> /\ pdPrev # <<>> /\ pdPrev[1].exc = "none"
    /\ data["A"] # <<>> /\ prev["A"] # <<>> /\ prev["A"][1].exc = "none"

\* C8: after add_item({value: 3}) then add_item({value: 4}) on a fresh
\* instance, get_summary() returns count 2, total 7 and average 3.5.
C8_AverageNotTruncated ==
    \A i \in Inst :
        (held[i] # <<>> /\ held[i][1].at = 2 /\ added[i] = <<R3, R4>>)
            => held[i][1].out = Returned(2, PyInt(7), PyFloat(7, 2))

C8_Witness ==
    held["A"] # <<>> /\ held["A"][1].at = 2 /\ added["A"] = <<R3, R4>>

\* C9: get_summary returns for the held sequence what process_data
\* returns when given that sequence, the empty dataset included.
C9_SummaryMatchesProcessData ==
    \A i \in Inst :
        /\ get_summary(data[i]) = process_data(data[i])
        /\ held[i] # <<>> => held[i][1].out = process_data(SeenBy(i))

C9_Witness ==
    /\ held["A"] # <<>>
    /\ held["A"][1].at = 0
    /\ held["A"][1].out = process_data(<<>>)
    /\ SomeMissing(data["A"]) /\ SomeValued(data["A"])

IsolatedStep ==
    \A j \in Inst :
        /\ (\E i \in Inst \ {j} : added'[i] # added[i]) =>
             (data'[j] = data[j] /\ held'[j] = held[j])
        /\ held'[j] # held[j] => held'[j][1].out = get_summary(added'[j])

\* C10: an add_item on one DataProcessor leaves every other instance's
\* held sequence and returned summary as they were, and a later
\* get_summary() of another instance is the summary of its own records.
C10_InstancesIsolated == [][IsolatedStep]_vars

C10_Witness ==
    /\ Len(added["A"]) = MaxData /\ added["B"] = <<R3>>
    /\ held["B"] # <<>> /\ held["B"][1].at = 1
    /\ held["B"][1].out = Returned(1, PyInt(3), PyFloat(3, 1))
    /\ held["A"] # <<>> /\ held["A"][1].at = MaxData

====
